---- MODULE Spec2Model ----
(***************************************************************************)
(* Model of check-new-repo (src/main.js): a webhook server that, for each  *)
(* "created" event of a private repository, arms a timer and, when the     *)
(* timer fires, looks the repository up by id, filters by organization,    *)
(* reads its teams and files an issue when there is none.                  *)
(*                                                                         *)
(* Time is in milliseconds.  Every await of an octokit request is a        *)
(* suspension point: the request is issued by one action and its response  *)
(* (or failure) is consumed by another.                                    *)
(***************************************************************************)
EXTENDS Integers, Sequences, FiniteSets, TLC

\* ---------------------------------------------------------------- bounds
\* number of inbound POST requests handled in one behaviour
MaxEvents == 2
\* number of clock steps in one behaviour
MaxTicks == 2

\* ------------------------------------------------------- program constants
DEFAULT_MARKDOWN == "This repository is not associated with any team. Please check."
ISSUE_TITLE == "Please check team association"
\* the largest delay setTimeout honours, ms (2^31 - 1)
TIMEOUT_MAX == 2147483647

\* ------------------------------------------------------------ input domains
\* delays (seconds) given on the command line; the last one is the first
\* whole number of seconds whose millisecond value exceeds TIMEOUT_MAX
Delays == {0, 1, (TIMEOUT_MAX \div 1000) + 1}
\* clock increments (ms)
Steps == {1, 1000}
RepoIds == {42, 43}
Logins == {"alice", "bob"}
\* repository name carried by the webhook payload
PayloadNames == {"old-name"}
\* owner and name the platform returns for a repository at lookup time; the
\* repository has been renamed since the event was sent
Owners == {"acme", "other-org"}
Names == {"new-name"}
\* team lists the platform returns
TeamLists == {<< >>, <<"platform">>}
\* issue body templates: the default, or the content of --markdown-file
Markdowns == {DEFAULT_MARKDOWN, "See the team policy."}
\* organizations given on the command line (argv._)
Organizations == <<"acme", "acme">>

\* a missing (undefined) member of the payload
NoRepository == [defined |-> FALSE, id |-> 0, name |-> "", private |-> FALSE]
NoSender == [defined |-> FALSE, login |-> ""]
Repositories ==
    {NoRepository} \cup
    [defined : {TRUE}, id : RepoIds, name : PayloadNames, private : BOOLEAN]
Senders == {NoSender} \cup [defined : {TRUE}, login : Logins]
\* the user who created each repository: the sender of its events
RepoCreator == [id \in RepoIds |-> IF id = 42 THEN "alice" ELSE "bob"]
Payloads ==
    {p \in [action : {"created", "deleted"},
            repository : Repositories,
            sender : Senders] :
        p.repository.defined /\ p.sender.defined
            => p.sender.login = RepoCreator[p.repository.id]}

VARIABLES
    now,                    \* wall clock, ms
    delay,                  \* Server.#delay, ms, as [sec, msec]
    markdown,               \* Server.#markdown
    allowedOrganizations,   \* Server.#allowedOrganizations
    handled,                \* number of POST requests handled so far
    lastReq,                \* the request handled last and what became of it
    timers,                 \* armed timers (setTimeout not yet fired)
    checks,                 \* executions of checkTeamAssociation, by event
    ticks,                  \* number of clock steps taken
    accepted,               \* history: number of events that armed a timer
    tracing,                \* whether the order of the requests is recorded
    trace                   \* history: requests and returns of all checks,
                            \* in the order they happened

vars == <<now, delay, markdown, allowedOrganizations, handled, lastReq,
          timers, checks, ticks, accepted, tracing, trace>>

\* ------------------------------------------------------------------ helpers
SeqToSet(s) == {s[i] : i \in 1..Len(s)}

\* new Set(organizations)
NewSet(organizations) == SeqToSet(organizations)

\* A duration that may exceed the checker's integers: sec * 1000 + msec ms.
\* delay * 1000, the constructor's conversion of seconds to milliseconds
SecondsToMs(d) == [sec |-> d, msec |-> 0]

\* elapsed (an integer number of ms) >= x
AtLeast(elapsed, x) ==
    \/ elapsed \div 1000 > x.sec
    \/ elapsed \div 1000 = x.sec /\ elapsed % 1000 >= x.msec

\* setTimeout(callback, ms): a delay outside 1..TIMEOUT_MAX is set to 1
TimerDelay(ms) ==
    IF (ms.sec > 0 \/ ms.msec >= 1) /\ AtLeast(TIMEOUT_MAX, ms)
    THEN ms.sec * 1000 + ms.msec
    ELSE 1

\* variant: the mention of the creator is left out of the body
IssueBody_NoMention(creator, md) == md

\* `@${creator} ${markdown}`
IssueBody(creator, md) == "@" \o creator \o " " \o md

NoReq == [n |-> 0,
          payload |-> [action |-> "", repository |-> NoRepository,
                       sender |-> NoSender],
          response |-> "none", outcome |-> "none"]

\* -------------------------------------------------------------------- Init
\* new Server(octokit, port, delay, markdown, organizations)
Setup ==
    /\ now = 0
    /\ \E d \in Delays : delay = SecondsToMs(d)
    /\ markdown \in Markdowns
    /\ allowedOrganizations = NewSet(Organizations)
    /\ handled = 0
    /\ lastReq = NoReq
    /\ timers = {}
    /\ checks = << >>
    /\ ticks = 0
    /\ accepted = 0
    /\ trace = << >>

Init == Setup /\ tracing = FALSE

\* the same program, with the order of the requests recorded
TraceInit == Setup /\ tracing = TRUE

\* ------------------------------------------------------------------- clock
Tick ==
    /\ ticks < MaxTicks
    /\ \E dt \in Steps : now' = now + dt
    /\ ticks' = ticks + 1
    /\ UNCHANGED <<delay, markdown, allowedOrganizations, handled, lastReq,
                   timers, checks, accepted, tracing, trace>>

\* -------------------------------------------------------------- handlePost
\* variant: the action of the event is not tested
HandleOutcome_AnyAction(payload) ==
    IF ~payload.repository.defined THEN "threw"
    ELSE IF ~payload.sender.defined THEN "threw"
    ELSE IF ~payload.repository.private THEN "ignored"
    ELSE "scheduled"

\* variant: the visibility of the repository is not tested
HandleOutcome_NoPrivateTest(payload) ==
    IF payload.action = "created"
    THEN IF ~payload.repository.defined THEN "threw"
         ELSE IF ~payload.sender.defined THEN "threw"
         ELSE "scheduled"
    ELSE "skipped"

\* what handlePost does with a payload:
\*   "threw"     reading a property of undefined raised a TypeError
\*   "ignored"   created, public: logged and returned
\*   "scheduled" created, private: logged and timer armed
\*   "skipped"   any other action
HandleOutcome(payload) ==
    IF payload.action = "created"
    THEN IF ~payload.repository.defined THEN "threw"
         ELSE IF ~payload.sender.defined THEN "threw"
         ELSE IF ~payload.repository.private THEN "ignored"
         ELSE "scheduled"
    ELSE "skipped"

\* res.status(200).send('OK') is reached only past the if statement
HandleResponse(payload) ==
    IF HandleOutcome(payload) \in {"scheduled", "skipped"} THEN "200"
    ELSE "none"

\* variant: an event for a repository that already has an armed timer
\* replaces that timer
HandlePost_Coalesce(payload) ==
    /\ handled < MaxEvents
    /\ handled' = handled + 1
    /\ lastReq' = [n |-> handled + 1, payload |-> payload,
                   response |-> HandleResponse(payload),
                   outcome |-> HandleOutcome(payload)]
    /\ timers' = IF HandleOutcome(payload) = "scheduled"
                 THEN {t \in timers : t.o.id # payload.repository.id} \cup
                      {[ev |-> handled + 1,
                        event |-> payload,
                        o |-> [id |-> payload.repository.id,
                               creator |-> payload.sender.login],
                        armedAt |-> now,
                        due |-> now + TimerDelay(delay)]}
                 ELSE timers
    /\ accepted' = IF HandleOutcome(payload) = "scheduled"
                   THEN accepted + 1 ELSE accepted
    /\ trace' = IF tracing /\ HandleOutcome(payload) = "scheduled"
                THEN trace \o <<[ev |-> handled + 1, op |-> "setTimeout"],
                                [ev |-> handled + 1, op |-> "res.send"]>>
                ELSE trace
    /\ UNCHANGED <<now, delay, markdown, allowedOrganizations, checks, ticks,
                   tracing>>

\* variant: with a delay of zero the check is started by the handler itself,
\* before the response is sent
HandlePost_Inline(payload) ==
    /\ handled < MaxEvents
    /\ handled' = handled + 1
    /\ lastReq' = [n |-> handled + 1, payload |-> payload,
                   response |-> HandleResponse(payload),
                   outcome |-> HandleOutcome(payload)]
    /\ timers' = IF HandleOutcome(payload) = "scheduled" /\ delay.sec > 0
                 THEN timers \cup
                      {[ev |-> handled + 1,
                        event |-> payload,
                        o |-> [id |-> payload.repository.id,
                               creator |-> payload.sender.login],
                        armedAt |-> now,
                        due |-> now + TimerDelay(delay)]}
                 ELSE timers
    /\ checks' = IF HandleOutcome(payload) = "scheduled" /\ delay.sec = 0
                 THEN [x \in DOMAIN checks \cup {handled + 1} |->
                         IF x = handled + 1
                         THEN [event |-> payload,
                               id |-> payload.repository.id,
                               creator |-> payload.sender.login,
                               pc |-> "awaitRepo", outcome |-> "running",
                               repoOwner |-> "", repoName |-> "",
                               calls |-> <<[op |-> "GET /repositories/{id}",
                                            id |-> payload.repository.id,
                                            owner |-> "", repo |-> "",
                                            title |-> "", body |-> ""]>>,
                               responses |-> << >>,
                               logs |-> << >>]
                         ELSE checks[x]]
                 ELSE checks
    /\ accepted' = IF HandleOutcome(payload) = "scheduled"
                   THEN accepted + 1 ELSE accepted
    /\ trace' = IF tracing /\ HandleOutcome(payload) = "scheduled"
                THEN IF delay.sec > 0
                     THEN trace \o <<[ev |-> handled + 1, op |-> "setTimeout"],
                                     [ev |-> handled + 1, op |-> "res.send"]>>
                     ELSE trace \o
                          <<[ev |-> handled + 1, op |-> "GET /repositories/{id}"],
                            [ev |-> handled + 1, op |-> "res.send"]>>
                ELSE trace
    /\ UNCHANGED <<now, delay, markdown, allowedOrganizations, ticks, tracing>>

HandlePost(payload) ==
    /\ handled < MaxEvents
    /\ handled' = handled + 1
    /\ lastReq' = [n |-> handled + 1, payload |-> payload,
                   response |-> HandleResponse(payload),
                   outcome |-> HandleOutcome(payload)]
    /\ timers' = IF HandleOutcome(payload) = "scheduled"
                 THEN timers \cup
                      {[ev |-> handled + 1,
                        event |-> payload,
                        o |-> [id |-> payload.repository.id,
                               creator |-> payload.sender.login],
                        armedAt |-> now,
                        due |-> now + TimerDelay(delay)]}
                 ELSE timers
    /\ accepted' = IF HandleOutcome(payload) = "scheduled"
                   THEN accepted + 1 ELSE accepted
    /\ trace' = IF tracing /\ HandleOutcome(payload) = "scheduled"
                THEN trace \o <<[ev |-> handled + 1, op |-> "setTimeout"],
                                [ev |-> handled + 1, op |-> "res.send"]>>
                ELSE trace
    /\ UNCHANGED <<now, delay, markdown, allowedOrganizations, checks, ticks,
                   tracing>>

\* ---------------------------------------------------- checkTeamAssociation
\* an octokit.request(...) call
Request(op, id, owner, repo, title, body) ==
    [op |-> op, id |-> id, owner |-> owner, repo |-> repo,
     title |-> title, body |-> body]
GET_REPOSITORY == "GET /repositories/{id}"
GET_TEAMS == "GET /repos/{owner}/{repo}/teams"
POST_ISSUE == "POST /repos/{owner}/{repo}/issues"
GetRepository(id) == Request(GET_REPOSITORY, id, "", "", "", "")
GetTeams(owner, repo) == Request(GET_TEAMS, 0, owner, repo, "", "")
PostIssue(owner, repo, creator, md) ==
    Request(POST_ISSUE, 0, owner, repo, ISSUE_TITLE, IssueBody(creator, md))

\* what the platform answered to a request: a resolved or a rejected promise
RepoData(owner, name) ==
    [to |-> GET_REPOSITORY, ok |-> TRUE,
     owner |-> owner, name |-> name, teams |-> << >>]
TeamData(teamData) ==
    [to |-> GET_TEAMS, ok |-> TRUE,
     owner |-> "", name |-> "", teams |-> teamData]
IssueData ==
    [to |-> POST_ISSUE, ok |-> TRUE,
     owner |-> "", name |-> "", teams |-> << >>]
Rejected(op) ==
    [to |-> op, ok |-> FALSE, owner |-> "", name |-> "", teams |-> << >>]

\* a console.log / console.error line
LogLine(level, msg) == [level |-> level, msg |-> msg]

\* variant: every owner passes the organization filter
IsAllowed_Any(allowed, repoOwner) == TRUE

\* this.#allowedOrganizations.has(repoOwner)
IsAllowed(allowed, repoOwner) == repoOwner \in allowed

\* variant: a single team counts as none
HasTeams_OffByOne(teamData) == Len(teamData) > 1

\* teamData.length > 0
HasTeams(teamData) == Len(teamData) > 0

Put(f, k, v) == [x \in DOMAIN f \cup {k} |-> IF x = k THEN v ELSE f[x]]

\* what check c did in this step, for the trace: the requests it issued and,
\* last, its return
Issued(c) ==
    LET before == IF c \in DOMAIN checks THEN Len(checks[c].calls) ELSE 0
    IN  [i \in 1..(Len(checks'[c].calls) - before) |->
            [ev |-> c, op |-> checks'[c].calls[before + i].op]]
Returned(c) ==
    IF checks'[c].pc = "done" THEN <<[ev |-> c, op |-> "return"]>> ELSE << >>
Traced(c) ==
    trace' = IF tracing THEN trace \o Issued(c) \o Returned(c) ELSE trace

\* variant: a timer fires only when no other check is in flight
Fire_Serial(ev) ==
    \E t \in timers :
    /\ t.ev = ev
    /\ now >= t.due
    /\ \A d \in DOMAIN checks : checks[d].pc = "done"
    /\ timers' = timers \ {t}
    /\ checks' = Put(checks, t.ev,
            [event |-> t.event,
             id |-> t.o.id, creator |-> t.o.creator,
             pc |-> "awaitRepo", outcome |-> "running",
             repoOwner |-> "", repoName |-> "",
             calls |-> <<GetRepository(t.o.id)>>,
             responses |-> << >>,
             logs |-> << >>])
    /\ Traced(ev)
    /\ UNCHANGED <<now, delay, markdown, allowedOrganizations, handled,
                   lastReq, ticks, accepted, tracing>>

\* The timer of event ev fires: checkTeamAssociation(o) starts and runs up
\* to its first await, the repository lookup.
Fire(ev) ==
    \E t \in timers :
    /\ t.ev = ev
    /\ now >= t.due
    /\ timers' = timers \ {t}
    /\ checks' = Put(checks, t.ev,
            [event |-> t.event,
             id |-> t.o.id, creator |-> t.o.creator,
             pc |-> "awaitRepo", outcome |-> "running",
             repoOwner |-> "", repoName |-> "",
             calls |-> <<GetRepository(t.o.id)>>,
             responses |-> << >>,
             logs |-> << >>])
    /\ Traced(ev)
    /\ UNCHANGED <<now, delay, markdown, allowedOrganizations, handled,
                   lastReq, ticks, accepted, tracing>>

\* variant: the name of the repository is taken from the webhook payload
RepoResponse_PayloadName(c, owner, name) ==
    /\ c \in DOMAIN checks
    /\ checks[c].pc = "awaitRepo"
    /\ checks' = [checks EXCEPT ![c] =
            IF ~IsAllowed(allowedOrganizations, owner)
            THEN [@ EXCEPT !.pc = "done", !.outcome = "notAllowed",
                           !.responses = Append(@, RepoData(owner, name)),
                           !.repoOwner = owner,
                           !.repoName = checks[c].event.repository.name,
                           !.logs = Append(@, LogLine("log", "Not in allowed organizations"))]
            ELSE [@ EXCEPT !.pc = "awaitTeams",
                           !.responses = Append(@, RepoData(owner, name)),
                           !.repoOwner = owner,
                           !.repoName = checks[c].event.repository.name,
                           !.calls = Append(@, GetTeams(owner,
                                        checks[c].event.repository.name))]]
    /\ Traced(c)
    /\ UNCHANGED <<now, delay, markdown, allowedOrganizations, handled,
                   lastReq, timers, ticks, accepted, tracing>>

\* The repository lookup returns {name, owner: {login}}.
RepoResponse(c, owner, name) ==
    /\ c \in DOMAIN checks
    /\ checks[c].pc = "awaitRepo"
    /\ checks' = [checks EXCEPT ![c] =
            IF ~IsAllowed(allowedOrganizations, owner)
            THEN [@ EXCEPT !.pc = "done", !.outcome = "notAllowed",
                           !.responses = Append(@, RepoData(owner, name)),
                           !.repoOwner = owner, !.repoName = name,
                           !.logs = Append(@, LogLine("log", "Not in allowed organizations"))]
            ELSE [@ EXCEPT !.pc = "awaitTeams",
                           !.responses = Append(@, RepoData(owner, name)),
                           !.repoOwner = owner, !.repoName = name,
                           !.calls = Append(@, GetTeams(owner, name))]]
    /\ Traced(c)
    /\ UNCHANGED <<now, delay, markdown, allowedOrganizations, handled,
                   lastReq, timers, ticks, accepted, tracing>>

\* variant: a rejected repository lookup is issued again
RepoFail_Retry(c) ==
    /\ c \in DOMAIN checks
    /\ checks[c].pc = "awaitRepo"
    /\ checks' = [checks EXCEPT ![c] =
            [@ EXCEPT !.responses = Append(@, Rejected(GET_REPOSITORY)),
                      !.calls = Append(@, GetRepository(checks[c].id))]]
    /\ Traced(c)
    /\ UNCHANGED <<now, delay, markdown, allowedOrganizations, handled,
                   lastReq, timers, ticks, accepted, tracing>>

\* variant: the rejection is not caught and ends the process, and with it
\* every armed timer
RepoFail_Crash(c) ==
    /\ c \in DOMAIN checks
    /\ checks[c].pc = "awaitRepo"
    /\ checks' = [checks EXCEPT ![c] =
            [@ EXCEPT !.pc = "done", !.outcome = "failed",
                      !.responses = Append(@, Rejected(GET_REPOSITORY))]]
    /\ timers' = {}
    /\ Traced(c)
    /\ UNCHANGED <<now, delay, markdown, allowedOrganizations, handled,
                   lastReq, ticks, accepted, tracing>>

\* The repository lookup rejects: the catch clause of checkTeamAssociation.
RepoFail(c) ==
    /\ c \in DOMAIN checks
    /\ checks[c].pc = "awaitRepo"
    /\ checks' = [checks EXCEPT ![c] =
            [@ EXCEPT !.pc = "done", !.outcome = "failed",
                      !.responses = Append(@, Rejected(GET_REPOSITORY)),
                      !.logs = Append(@, LogLine("error", "Failed to check team association"))]]
    /\ Traced(c)
    /\ UNCHANGED <<now, delay, markdown, allowedOrganizations, handled,
                   lastReq, timers, ticks, accepted, tracing>>

\* variant: the creator is kept in a field shared by all checks, which the
\* event handled last has overwritten
TeamsResponse_SharedCreator(c, teamData) ==
    /\ c \in DOMAIN checks
    /\ checks[c].pc = "awaitTeams"
    /\ checks' = [checks EXCEPT ![c] =
            IF HasTeams(teamData)
            THEN [@ EXCEPT !.pc = "done", !.outcome = "teams",
                           !.responses = Append(@, TeamData(teamData)),
                           !.logs = Append(@, LogLine("log", "Teams associated"))]
            ELSE [@ EXCEPT !.pc = "awaitIssue",
                           !.responses = Append(@, TeamData(teamData)),
                           !.logs = Append(@, LogLine("log", "No teams associated")),
                           !.calls = Append(@, PostIssue(checks[c].repoOwner,
                                                checks[c].repoName,
                                                lastReq.payload.sender.login,
                                                markdown))]]
    /\ Traced(c)
    /\ UNCHANGED <<now, delay, markdown, allowedOrganizations, handled,
                   lastReq, timers, ticks, accepted, tracing>>

\* variant: createIssue is invoked twice for an empty team list
TeamsResponse_FileTwice(c, teamData) ==
    /\ c \in DOMAIN checks
    /\ checks[c].pc = "awaitTeams"
    /\ checks' = [checks EXCEPT ![c] =
            IF HasTeams(teamData)
            THEN [@ EXCEPT !.pc = "done", !.outcome = "teams",
                           !.responses = Append(@, TeamData(teamData)),
                           !.logs = Append(@, LogLine("log", "Teams associated"))]
            ELSE [@ EXCEPT !.pc = "awaitIssue",
                           !.responses = Append(@, TeamData(teamData)),
                           !.logs = Append(@, LogLine("log", "No teams associated")),
                           !.calls = @ \o
                               <<PostIssue(checks[c].repoOwner, checks[c].repoName,
                                           checks[c].creator, markdown),
                                 PostIssue(checks[c].repoOwner, checks[c].repoName,
                                           checks[c].creator, markdown)>>]]
    /\ Traced(c)
    /\ UNCHANGED <<now, delay, markdown, allowedOrganizations, handled,
                   lastReq, timers, ticks, accepted, tracing>>

\* The team lookup returns a list of {name}; with an empty list createIssue
\* starts and runs up to its await, the issue-creation request.
TeamsResponse(c, teamData) ==
    /\ c \in DOMAIN checks
    /\ checks[c].pc = "awaitTeams"
    /\ checks' = [checks EXCEPT ![c] =
            IF HasTeams(teamData)
            THEN [@ EXCEPT !.pc = "done", !.outcome = "teams",
                           !.responses = Append(@, TeamData(teamData)),
                           !.logs = Append(@, LogLine("log", "Teams associated"))]
            ELSE [@ EXCEPT !.pc = "awaitIssue",
                           !.responses = Append(@, TeamData(teamData)),
                           !.logs = Append(@, LogLine("log", "No teams associated")),
                           !.calls = Append(@, PostIssue(checks[c].repoOwner,
                                                         checks[c].repoName,
                                                         checks[c].creator,
                                                         markdown))]]
    /\ Traced(c)
    /\ UNCHANGED <<now, delay, markdown, allowedOrganizations, handled,
                   lastReq, timers, ticks, accepted, tracing>>

\* variant: a rejected team lookup is taken for an empty team list
TeamsFail_AsEmpty(c) ==
    /\ c \in DOMAIN checks
    /\ checks[c].pc = "awaitTeams"
    /\ checks' = [checks EXCEPT ![c] =
            [@ EXCEPT !.pc = "awaitIssue",
                      !.responses = Append(@, Rejected(GET_TEAMS)),
                      !.logs = Append(@, LogLine("log", "No teams associated")),
                      !.calls = Append(@, PostIssue(checks[c].repoOwner,
                                                    checks[c].repoName,
                                                    checks[c].creator,
                                                    markdown))]]
    /\ Traced(c)
    /\ UNCHANGED <<now, delay, markdown, allowedOrganizations, handled,
                   lastReq, timers, ticks, accepted, tracing>>

\* variant: a rejected team lookup is issued again
TeamsFail_Retry(c) ==
    /\ c \in DOMAIN checks
    /\ checks[c].pc = "awaitTeams"
    /\ checks' = [checks EXCEPT ![c] =
            [@ EXCEPT !.responses = Append(@, Rejected(GET_TEAMS)),
                      !.calls = Append(@, GetTeams(checks[c].repoOwner,
                                                   checks[c].repoName))]]
    /\ Traced(c)
    /\ UNCHANGED <<now, delay, markdown, allowedOrganizations, handled,
                   lastReq, timers, ticks, accepted, tracing>>

\* The team lookup rejects: the catch clause of checkTeamAssociation.
TeamsFail(c) ==
    /\ c \in DOMAIN checks
    /\ checks[c].pc = "awaitTeams"
    /\ checks' = [checks EXCEPT ![c] =
            [@ EXCEPT !.pc = "done", !.outcome = "failed",
                      !.responses = Append(@, Rejected(GET_TEAMS)),
                      !.logs = Append(@, LogLine("error", "Failed to check team association"))]]
    /\ Traced(c)
    /\ UNCHANGED <<now, delay, markdown, allowedOrganizations, handled,
                   lastReq, timers, ticks, accepted, tracing>>

\* -------------------------------------------------------------- createIssue
\* The issue-creation request returns {html_url}.
IssueResponse(c) ==
    /\ c \in DOMAIN checks
    /\ checks[c].pc = "awaitIssue"
    /\ checks' = [checks EXCEPT ![c] =
            [@ EXCEPT !.pc = "done", !.outcome = "issueCreated",
                      !.responses = Append(@, IssueData),
                      !.logs = Append(@, LogLine("log", "Created an issue"))]]
    /\ Traced(c)
    /\ UNCHANGED <<now, delay, markdown, allowedOrganizations, handled,
                   lastReq, timers, ticks, accepted, tracing>>

\* variant: a rejected issue-creation request is issued again
IssueFail_Retry(c) ==
    /\ c \in DOMAIN checks
    /\ checks[c].pc = "awaitIssue"
    /\ checks' = [checks EXCEPT ![c] =
            [@ EXCEPT !.responses = Append(@, Rejected(POST_ISSUE)),
                      !.logs = Append(@, LogLine("error", "Failed to create an issue")),
                      !.calls = Append(@, checks[c].calls[Len(checks[c].calls)])]]
    /\ Traced(c)
    /\ UNCHANGED <<now, delay, markdown, allowedOrganizations, handled,
                   lastReq, timers, ticks, accepted, tracing>>

\* The issue-creation request rejects: the catch clause of createIssue.
IssueFail(c) ==
    /\ c \in DOMAIN checks
    /\ checks[c].pc = "awaitIssue"
    /\ checks' = [checks EXCEPT ![c] =
            [@ EXCEPT !.pc = "done", !.outcome = "issueFailed",
                      !.responses = Append(@, Rejected(POST_ISSUE)),
                      !.logs = Append(@, LogLine("error", "Failed to create an issue"))]]
    /\ Traced(c)
    /\ UNCHANGED <<now, delay, markdown, allowedOrganizations, handled,
                   lastReq, timers, ticks, accepted, tracing>>

Events == 1..MaxEvents

\* the platform answers the pending request of check c, either way
RepoAnswer(c) ==
    \/ \E owner \in Owners, name \in Names : RepoResponse(c, owner, name)
    \/ RepoFail(c)
TeamsAnswer(c) ==
    \/ \E teamData \in TeamLists : TeamsResponse(c, teamData)
    \/ TeamsFail(c)
IssueAnswer(c) == IssueResponse(c) \/ IssueFail(c)

Next ==
    \/ Tick
    \/ \E p \in Payloads : HandlePost(p)
    \/ \E ev \in Events : Fire(ev)
    \/ \E c \in Events, owner \in Owners, name \in Names :
            RepoResponse(c, owner, name)
    \/ \E c \in Events : RepoFail(c)
    \/ \E c \in Events, teamData \in TeamLists : TeamsResponse(c, teamData)
    \/ \E c \in Events : TeamsFail(c)
    \/ \E c \in Events : IssueResponse(c)
    \/ \E c \in Events : IssueFail(c)

Spec == Init /\ [][Next]_vars

TraceSpec == TraceInit /\ [][Next]_vars

\* every request of a check is eventually answered, one way or the other
FairSpec ==
    /\ Spec
    /\ \A c \in Events :
        /\ WF_vars(RepoAnswer(c))
        /\ WF_vars(TeamsAnswer(c))
        /\ WF_vars(IssueAnswer(c))

\* ================================================================= claims
\* the requests of check c to operation op, as positions in its call list
CallsTo(c, op) == {i \in 1..Len(checks[c].calls) : checks[c].calls[i].op = op}
\* the answers check c has received
Answers(c) == SeqToSet(checks[c].responses)
\* the repository lookup of check c returned an owner of the allowed set
OwnerAllowed(c) ==
    \E r \in Answers(c) :
        r.to = "GET /repositories/{id}" /\ r.ok /\ r.owner \in allowedOrganizations
\* the repository lookup of check c returned an owner outside the allowed set
OwnerNotAllowed(c) ==
    \E r \in Answers(c) :
        r.to = "GET /repositories/{id}" /\ r.ok /\ r.owner \notin allowedOrganizations
\* the team lookup of check c returned the empty list
NoTeams(c) ==
    \E r \in Answers(c) :
        r.to = "GET /repos/{owner}/{repo}/teams" /\ r.ok /\ r.teams = << >>
\* a lookup of check c was rejected
RejectedBy(c, op) == \E r \in Answers(c) : r.to = op /\ ~r.ok
\* event number n has an armed timer or a check
Tracked(n) == (\E t \in timers : t.ev = n) \/ n \in DOMAIN checks
\* check c logged an error line
LoggedError(c) ==
    \E i \in 1..Len(checks[c].logs) : checks[c].logs[i].level = "error"

\* C1: a check issues an issue-creation request only if its repository
\* lookup returned an owner of the allowed set and its team lookup returned
\* the empty list; with any other answers it never issues one.
C1_IssueOnlyIfAllowedAndNoTeams ==
    \A c \in DOMAIN checks :
        CallsTo(c, "POST /repos/{owner}/{repo}/issues") # {}
            => OwnerAllowed(c) /\ NoTeams(c)

C1_Witness ==
    \E c \in DOMAIN checks :
        /\ checks[c].pc = "awaitIssue"
        /\ CallsTo(c, "POST /repos/{owner}/{repo}/issues") # {}

\* C2: a check whose owner is allowed and whose team lookup returned the
\* empty list issues exactly one issue-creation request, titled "Please check
\* team association", whose body is "@", the login of the sender of the
\* originating event, a space and the configured template.
C2_ExactlyOneIssue ==
    \A c \in DOMAIN checks :
        OwnerAllowed(c) /\ NoTeams(c) =>
            /\ Cardinality(CallsTo(c, "POST /repos/{owner}/{repo}/issues")) = 1
            /\ \A i \in CallsTo(c, "POST /repos/{owner}/{repo}/issues") :
                /\ checks[c].calls[i].title = "Please check team association"
                /\ checks[c].calls[i].body =
                       "@" \o checks[c].event.sender.login \o " " \o markdown

C2_Witness ==
    \E c \in DOMAIN checks :
        /\ OwnerAllowed(c) /\ NoTeams(c)
        /\ checks[c].outcome = "issueCreated"
        /\ checks[c].event.sender.login = "bob"
        /\ markdown # DEFAULT_MARKDOWN

\* C3: the check of an accepted event fires exactly once and never before
\* the configured delay has elapsed since the event was accepted; a timer is
\* never cancelled, rescheduled or armed again.
C3_FiresOnceAfterDelay ==
    [][/\ \A t \in timers :
            IF t \in timers'
            THEN t.ev \notin DOMAIN checks'
            ELSE /\ AtLeast(now - t.armedAt, delay)
                 /\ t.ev \notin DOMAIN checks
                 /\ t.ev \in DOMAIN checks'
       /\ \A t \in timers' \ timers :
            t.ev \notin DOMAIN checks /\ ~(\E u \in timers : u.ev = t.ev)
      ]_vars

\* C4: an event whose action is not "created" arms no timer and starts no
\* check, whatever its other fields are.
C4_NotCreatedNotTracked ==
    /\ \A t \in timers : t.event.action = "created"
    /\ \A c \in DOMAIN checks : checks[c].event.action = "created"
    /\ lastReq.n > 0 /\ lastReq.payload.action # "created" => ~Tracked(lastReq.n)

C4_Witness ==
    /\ lastReq.n > 0
    /\ lastReq.payload.action = "deleted"
    /\ lastReq.payload.repository.defined
    /\ lastReq.payload.repository.private
    /\ lastReq.payload.sender.defined

\* C5: an event whose repository is not private arms no timer and starts no
\* check, whatever its action is.
C5_PublicNotTracked ==
    /\ \A t \in timers : t.event.repository.private
    /\ \A c \in DOMAIN checks : checks[c].event.repository.private
    /\ lastReq.n > 0 /\ ~lastReq.payload.repository.private => ~Tracked(lastReq.n)

C5_Witness ==
    /\ lastReq.n > 0
    /\ lastReq.payload.action = "created"
    /\ lastReq.payload.repository.defined
    /\ ~lastReq.payload.repository.private
    /\ lastReq.payload.sender.defined

\* C6: every inbound event is acknowledged with 200 OK: an event that is not
\* "created", a "created" event of a public repository and a "created" event
\* of a private repository alike.
C6_AlwaysAcknowledged ==
    /\ lastReq.n > 0
    /\ lastReq.payload.repository.defined
    /\ lastReq.payload.sender.defined
    => lastReq.response = "200"

\* C7: handling a "created" event whose repository or sender is missing
\* raises no error and creates no pending check.
C7_MalformedNoError ==
    /\ lastReq.n > 0
    /\ lastReq.payload.action = "created"
    /\ ~lastReq.payload.repository.defined \/ ~lastReq.payload.sender.defined
    => lastReq.outcome # "threw" /\ ~Tracked(lastReq.n)

C10_NotAllowedTerminates ==
    \A c \in DOMAIN checks :
        OwnerNotAllowed(c) =>
            /\ checks[c].pc = "done"
            /\ checks[c].outcome = "notAllowed"
            /\ Len(checks[c].calls) = 1
            /\ CallsTo(c, "GET /repositories/{id}") = {1}

C10_Witness ==
    \E c \in DOMAIN checks :
        OwnerNotAllowed(c) /\ checks[c].repoOwner = "other-org"

FailsIn(c) ==
    /\ c \in DOMAIN checks
    /\ c \in DOMAIN checks'
    /\ Len(checks'[c].responses) = Len(checks[c].responses) + 1
    /\ ~checks'[c].responses[Len(checks'[c].responses)].ok
\* some check has failed
SomeFailure ==
    \E c \in DOMAIN checks : checks[c].outcome \in {"failed", "issueFailed"}
\* every check in flight can take its next step, whatever the answer is, every
\* timer that is due can fire, and a further event can be handled
AllCanProceed ==
    /\ \A d \in DOMAIN checks :
        /\ checks[d].pc = "awaitRepo" =>
            /\ ENABLED RepoFail(d)
            /\ \A owner \in Owners, name \in Names :
                    ENABLED RepoResponse(d, owner, name)
        /\ checks[d].pc = "awaitTeams" =>
            /\ ENABLED TeamsFail(d)
            /\ \A teamData \in TeamLists : ENABLED TeamsResponse(d, teamData)
        /\ checks[d].pc = "awaitIssue" =>
            ENABLED IssueResponse(d) /\ ENABLED IssueFail(d)
    /\ \A t \in timers : now >= t.due => ENABLED Fire(t.ev)
    /\ handled < MaxEvents => \A p \in Payloads : ENABLED HandlePost(p)

RepoAnswers(c) ==
    {r \in Answers(c) : r.to = "GET /repositories/{id}" /\ r.ok}

\* C13: the owner and the name a check passes to the team lookup and to the
\* issue-creation request, and the owner it tests against the allowed set,
\* are those its own repository lookup returned; the lookup is by the id of
\* the event, and the timer carries only that id and the login of the sender.
C13_OwnerAndNameFromLookup ==
    /\ \A t \in timers :
        /\ DOMAIN t.o = {"id", "creator"}
        /\ t.o.id = t.event.repository.id
        /\ t.o.creator = t.event.sender.login
    /\ \A c \in DOMAIN checks :
        /\ checks[c].calls[1].op = "GET /repositories/{id}"
        /\ checks[c].calls[1].id = checks[c].event.repository.id
        /\ \A i \in 2..Len(checks[c].calls) :
            \E r \in RepoAnswers(c) :
                /\ checks[c].calls[i].owner = r.owner
                /\ checks[c].calls[i].repo = r.name
        /\ \A r \in RepoAnswers(c) :
            /\ checks[c].repoOwner = r.owner
            /\ checks[c].repoName = r.name
            /\ (checks[c].outcome = "notAllowed")
                   = (r.owner \notin allowedOrganizations)

C13_Witness ==
    \E c \in DOMAIN checks :
        /\ Len(checks[c].calls) = 3
        /\ checks[c].calls[3].repo = "new-name"
        /\ checks[c].event.repository.name = "old-name"

\* the checks of repository id that have issued an issue-creation request
Filers(id) ==
    {c \in DOMAIN checks :
        /\ checks[c].event.repository.id = id
        /\ CallsTo(c, "POST /repos/{owner}/{repo}/issues") # {}}

\* C14 (as stated): whatever events arrive, repeated deliveries for one
\* repository id included, at most one issue-creation request is ever issued
\* for a repository.
C14_AtMostOneIssuePerRepository ==
    \A id \in RepoIds :
        /\ Cardinality(Filers(id)) <= 1
        /\ \A c \in Filers(id) :
            Cardinality(CallsTo(c, "POST /repos/{owner}/{repo}/issues")) = 1

\* C14 (amended): each check issues at most one issue-creation request, so a
\* repository gets at most as many as accepted events carried its id.
C14_AtMostOneIssuePerCheck ==
    \A id \in RepoIds :
        /\ \A c \in Filers(id) :
            Cardinality(CallsTo(c, "POST /repos/{owner}/{repo}/issues")) = 1
        /\ Cardinality(Filers(id)) <=
              Cardinality({c \in DOMAIN checks :
                              checks[c].event.repository.id = id})

C14_Witness ==
    \E c, d \in DOMAIN checks :
        /\ c # d
        /\ checks[c].event.repository.id = checks[d].event.repository.id
        /\ {c, d} \subseteq Filers(checks[c].event.repository.id)

\* the order of the three requests of a check
RequestOrder ==
    <<"GET /repositories/{id}", "GET /repos/{owner}/{repo}/teams",
      "POST /repos/{owner}/{repo}/issues">>
\* how far a check has got
StepOf(pc) ==
    CASE pc = "awaitRepo" -> 1
      [] pc = "awaitTeams" -> 2
      [] pc = "awaitIssue" -> 3
      [] pc = "done" -> 4

\* C15: the requests of a check are the repository lookup, then the team
\* lookup, then the issue-creation request, each made at most once; a request
\* is made only after the one before it was answered successfully; a check
\* never steps back and never drops or repeats a request.
C15_OrderedSingleAttempt ==
    /\ [](\A c \in DOMAIN checks :
            /\ Len(checks[c].calls) \in 1..3
            /\ \A i \in 1..Len(checks[c].calls) :
                checks[c].calls[i].op = RequestOrder[i]
            /\ Len(checks[c].responses) \in
                  {Len(checks[c].calls) - 1, Len(checks[c].calls)}
            /\ \A i \in 1..Len(checks[c].responses) :
                /\ checks[c].responses[i].to = RequestOrder[i]
                /\ i < Len(checks[c].calls) => checks[c].responses[i].ok)
    /\ [][\A c \in DOMAIN checks :
            /\ c \in DOMAIN checks'
            /\ StepOf(checks'[c].pc) >= StepOf(checks[c].pc)
            /\ Len(checks'[c].calls) >= Len(checks[c].calls)
            /\ SubSeq(checks'[c].calls, 1, Len(checks[c].calls)) = checks[c].calls
         ]_vars

C15_Witness ==
    \E c \in DOMAIN checks :
        /\ Len(checks[c].calls) = 3
        /\ Len(checks[c].responses) = 3
        /\ checks[c].pc = "done"

\* the events that have an armed timer
Armed == {t.ev : t \in timers}

\* C16: every accepted event has exactly one timer or one check of its own,
\* also when another accepted event carries the same repository id: timers
\* and checks together are as many as the accepted events, and once no timer
\* is armed the checks are as many as the accepted events.
C16_OneCheckPerAcceptedEvent ==
    /\ Cardinality(timers) = Cardinality(Armed)
    /\ Armed \cap DOMAIN checks = {}
    /\ Cardinality(Armed) + Cardinality(DOMAIN checks) = accepted
    /\ timers = {} => Cardinality(DOMAIN checks) = accepted
    /\ \A t \in timers : t.ev <= handled
    /\ \A c \in DOMAIN checks : c <= handled

C16_Witness ==
    /\ accepted = 2
    /\ timers = {}
    /\ \E c, d \in DOMAIN checks :
        c # d /\ checks[c].event.repository.id = checks[d].event.repository.id

\* check c is waiting for an answer
InFlight(c) == c \in DOMAIN checks /\ checks[c].pc # "done"
\* the timer of event c can fire
Due(c) == \E t \in timers : t.ev = c /\ now >= t.due
\* the pending request of check c can be answered
CanBeAnswered(c) ==
    CASE checks[c].pc = "awaitRepo" -> ENABLED RepoAnswer(c)
      [] checks[c].pc = "awaitTeams" -> ENABLED TeamsAnswer(c)
      [] checks[c].pc = "awaitIssue" -> ENABLED IssueAnswer(c)
\* the positions of the entries of event c with operation op in the trace
At(c, op) == {i \in 1..Len(trace) : trace[i].ev = c /\ trace[i].op = op}
\* an entry of (c, op) comes before an entry of (d, oq)
Before(c, op, d, oq) == \E i \in At(c, op), j \in At(d, oq) : i < j

\* C17: no order is enforced between checks: while one check is in flight,
\* the timer of another that is due can fire, and of two checks in flight
\* either can be answered next.
C17_NoOrderAcrossChecks ==
    \A c, d \in Events :
        c # d =>
            /\ Due(c) /\ (InFlight(d) \/ Due(d)) => ENABLED Fire(c)
            /\ InFlight(c) /\ InFlight(d) =>
                   CanBeAnswered(c) /\ CanBeAnswered(d)

\* checks of two repositories whose timers were armed together: the team
\* lookup of the second falls between the repository lookup and the team
\* lookup of the first, and the second returns before the first
C17_Witness ==
    /\ {1, 2} \subseteq DOMAIN checks
    /\ checks[1].event.repository.id # checks[2].event.repository.id
    /\ Before(2, "setTimeout", 1, "GET /repositories/{id}")
    /\ Before(1, "GET /repositories/{id}", 2, "GET /repos/{owner}/{repo}/teams")
    /\ Before(2, "GET /repos/{owner}/{repo}/teams",
              1, "GET /repos/{owner}/{repo}/teams")
    /\ Before(2, "return", 1, "return")

\* the same two checks returning in the order they were accepted
C17_OtherOrder ==
    /\ {1, 2} \subseteq DOMAIN checks
    /\ checks[1].event.repository.id # checks[2].event.repository.id
    /\ Before(2, "setTimeout", 1, "GET /repositories/{id}")
    /\ Before(1, "return", 2, "return")

\* What a check must look like, computed from its own event, the answers to
\* its own requests and the configuration alone.
ExpectedLookup(event) ==
    [op |-> "GET /repositories/{id}", id |-> event.repository.id,
     owner |-> "", repo |-> "", title |-> "", body |-> ""]
ExpectedTeams(rs) ==
    [op |-> "GET /repos/{owner}/{repo}/teams", id |-> 0,
     owner |-> rs[1].owner, repo |-> rs[1].name, title |-> "", body |-> ""]
ExpectedIssue(event, rs) ==
    [op |-> "POST /repos/{owner}/{repo}/issues", id |-> 0,
     owner |-> rs[1].owner, repo |-> rs[1].name,
     title |-> "Please check team association",
     body |-> "@" \o event.sender.login \o " " \o markdown]
Expected(event, rs) ==
    LET n == Len(rs)
        one == <<ExpectedLookup(event)>>
        two == <<ExpectedLookup(event), ExpectedTeams(rs)>>
        three == <<ExpectedLookup(event), ExpectedTeams(rs),
                   ExpectedIssue(event, rs)>>
    IN  IF n = 0 THEN [pc |-> "awaitRepo", outcome |-> "running", calls |-> one]
        ELSE IF ~rs[1].ok
             THEN [pc |-> "done", outcome |-> "failed", calls |-> one]
        ELSE IF rs[1].owner \notin allowedOrganizations
             THEN [pc |-> "done", outcome |-> "notAllowed", calls |-> one]
        ELSE IF n = 1
             THEN [pc |-> "awaitTeams", outcome |-> "running", calls |-> two]
        ELSE IF ~rs[2].ok
             THEN [pc |-> "done", outcome |-> "failed", calls |-> two]
        ELSE IF rs[2].teams # << >>
             THEN [pc |-> "done", outcome |-> "teams", calls |-> two]
        ELSE IF n = 2
             THEN [pc |-> "awaitIssue", outcome |-> "running", calls |-> three]
        ELSE IF rs[3].ok
             THEN [pc |-> "done", outcome |-> "issueCreated", calls |-> three]
        ELSE [pc |-> "done", outcome |-> "issueFailed", calls |-> three]

\* C18: the state, the outcome and the requests of a check are determined by
\* its own event and the answers to its own requests, whatever the other
\* checks and the event handling do in between; and no step changes the
\* allowed organizations, the issue template or the delay.
C18_OutcomeIsOwn ==
    /\ [](\A c \in DOMAIN checks :
            [pc |-> checks[c].pc, outcome |-> checks[c].outcome,
             calls |-> checks[c].calls]
                = Expected(checks[c].event, checks[c].responses))
    /\ [][/\ allowedOrganizations' = allowedOrganizations
          /\ markdown' = markdown
          /\ delay' = delay]_vars

\* a check filed its issue after a later event of another sender was handled
C18_Witness ==
    \E c \in DOMAIN checks :
        /\ Len(checks[c].calls) = 3
        /\ lastReq.n > c
        /\ lastReq.payload.sender.login # checks[c].event.sender.login
        /\ \E d \in DOMAIN checks : d # c /\ checks[d].pc # "awaitRepo"

\* C19: arming the timer does not block the handler: for every accepted event
\* the handler has armed the timer and sent the response before the check of
\* that event issues its repository lookup, with a delay of zero as well.
C19_AcknowledgedBeforeCheck ==
    /\ \A t \in timers :
        /\ Before(t.ev, "setTimeout", t.ev, "res.send")
        /\ t.ev \notin DOMAIN checks
    /\ \A c \in DOMAIN checks :
        /\ Before(c, "setTimeout", c, "res.send")
        /\ \A i \in At(c, "res.send"), j \in 1..Len(trace) :
            trace[j].ev = c /\ trace[j].op \notin {"setTimeout", "res.send"}
                => i < j

C19_Witness ==
    /\ delay = [sec |-> 0, msec |-> 0]
    /\ \E c \in DOMAIN checks :
        /\ Before(c, "res.send", c, "GET /repositories/{id}")
        /\ lastReq.n = c
        /\ lastReq.response = "200"

\* the number of issue-creation requests issued by the checks of set S
RECURSIVE IssueRequests(_)
IssueRequests(S) ==
    IF S = {} THEN 0
    ELSE LET c == CHOOSE x \in S : TRUE
         IN  Cardinality(CallsTo(c, "POST /repos/{owner}/{repo}/issues"))
                + IssueRequests(S \ {c})

\* C20: if every request is eventually answered, a check that has started
\* eventually returns; it makes at most three requests; and the
\* issue-creation requests issued so far are at most the checks started,
\* which are at most the events accepted.
C20_TerminatesWithinThreeCalls ==
    /\ \A c \in Events :
        (c \in DOMAIN checks) ~> (c \in DOMAIN checks /\ checks[c].pc = "done")
    /\ [](/\ \A c \in DOMAIN checks : Len(checks[c].calls) <= 3
          /\ IssueRequests(DOMAIN checks) <= Cardinality(DOMAIN checks)
          /\ Cardinality(DOMAIN checks) <= accepted)

C20_Witness ==
    /\ \E c \in DOMAIN checks :
        checks[c].pc = "done" /\ Len(checks[c].calls) = 3
    /\ IssueRequests(DOMAIN checks) = 1
    /\ Cardinality(DOMAIN checks) = 2
    /\ \A c \in DOMAIN checks : checks[c].pc = "done"

====
